---- MODULE Spec2Model ----
(***************************************************************************)
(* ConvexOutliner (src/ConvexOutliner/ConvexOutliner.py): the class that   *)
(* projects the vertices of a mesh to the active view, takes the 2D convex *)
(* hull of the screen points, maps the hull indices back to the 3D         *)
(* vertices, re-projects them to the mean distance from the camera eye and *)
(* asks the host for a degree-1 curve through them.                        *)
(*                                                                         *)
(* Numbers.  The code computes in floating point.  The model computes in   *)
(* exact rationals <<numerator, denominator>> (reduced, denominator > 0)   *)
(* with one extra value, NaN == <<0, 0>>; the vertex positions are drawn   *)
(* from a set in which every eye distance is rational, so that length(),   *)
(* normalize() and the mean are exact.  Rounding error is not modelled.    *)
(*                                                                         *)
(* Indices are the code's 0-based indices; Item(s, i) reads s[i].          *)
(***************************************************************************)
EXTENDS Integers, Sequences, FiniteSets

\* ----------------------------------------------------------------- bounds

\* Largest number of vertices of the input mesh.
MaxVerts == 4

\* Largest number of method calls (buildCurve, projectPoints) made on a
\* constructed object.
MaxCalls == 2

\* ------------------------------------------------------------ float values

NaN == <<0, 0>>

IsNaN(a) == a[2] = 0

Abs(n) == IF n < 0 THEN -n ELSE n

RECURSIVE GCD(_, _)
GCD(a, b) == IF b = 0 THEN a ELSE GCD(b, a % b)

LCM(a, b) == (a \div GCD(a, b)) * b

\* n/d in lowest terms, d > 0.
Rat(n, d) ==
    LET g == GCD(Abs(n), d)
    IN  <<n \div g, d \div g>>

FromInt(n) == <<n, 1>>

Zero == FromInt(0)

RAdd(a, b) ==
    IF IsNaN(a) \/ IsNaN(b) THEN NaN
    ELSE LET l == LCM(a[2], b[2])
         IN  Rat(a[1] * (l \div a[2]) + b[1] * (l \div b[2]), l)

RNeg(a) == <<-a[1], a[2]>>

RSub(a, b) == RAdd(a, RNeg(b))

RMul(a, b) ==
    IF IsNaN(a) \/ IsNaN(b) THEN NaN
    ELSE LET g1 == GCD(Abs(a[1]), b[2])
             g2 == GCD(Abs(b[1]), a[2])
         IN  <<(a[1] \div g1) * (b[1] \div g2), (a[2] \div g2) * (b[2] \div g1)>>

\* a / b for b > 0 or NaN.
RDiv(a, b) ==
    IF IsNaN(a) \/ IsNaN(b) THEN NaN
    ELSE RMul(a, <<b[2], b[1]>>)

\* The square root of a perfect square.
ISqrt(n) == CHOOSE r \in 0..n : r * r = n

\* sqrt of a rational that is the square of a rational.
RSqrt(a) ==
    IF IsNaN(a) THEN NaN ELSE <<ISqrt(a[1]), ISqrt(a[2])>>

\* ---------------------------------------------------------------- MVector

\* sequence access with the code's 0-based index
Item(s, i) == s[i + 1]

\* range(n)
Range(n) == [k \in 1..n |-> k - 1]

Vec(x, y, z) == <<FromInt(x), FromInt(y), FromInt(z)>>

NaNVec == <<NaN, NaN, NaN>>

VSub(a, b) == <<RSub(a[1], b[1]), RSub(a[2], b[2]), RSub(a[3], b[3])>>

VAdd(a, b) == <<RAdd(a[1], b[1]), RAdd(a[2], b[2]), RAdd(a[3], b[3])>>

VScale(a, s) == <<RMul(a[1], s), RMul(a[2], s), RMul(a[3], s)>>

LengthSq(a) ==
    RAdd(RMul(a[1], a[1]), RAdd(RMul(a[2], a[2]), RMul(a[3], a[3])))

\* MVector.length()
Length(a) == RSqrt(LengthSq(a))

\* What MVector.normalize() may leave in a vector of length 0: the host
\* library's choice, not the script's.  Either the vector is left as it is,
\* or the division by the zero length is carried out.
ZeroNormalizeOutcomes == {<<Zero, Zero, Zero>>, NaNVec}

\* MVector.normalize(): the set of vectors it may leave in place of a.
Normalize(a) ==
    IF IsNaN(Length(a)) THEN {NaNVec}
    ELSE IF Length(a) = Zero THEN ZeroNormalizeOutcomes
    ELSE {<<RDiv(a[1], Length(a)), RDiv(a[2], Length(a)), RDiv(a[3], Length(a))>>}

\* ---------------------------------------------------- scipy ConvexHull (2D)

\* twice the signed area of the triangle o, a, b: > 0 when b is to the left
\* of the line from o to a
Cross(o, a, b) ==
    (a[1] - o[1]) * (b[2] - o[2]) - (a[2] - o[2]) * (b[1] - o[1])

\* s lies on the segment from p to q (the three are collinear)
OnSegment(p, q, s) ==
    /\ (s[1] - p[1]) * (s[1] - q[1]) <= 0
    /\ (s[2] - p[2]) * (s[2] - q[2]) <= 0

PointSet(pts) == {pts[k] : k \in 1..Len(pts)}

\* Mutant of Degenerate: only the number of points is looked at.
DegenerateTooFew(pts) == Len(pts) < 3

\* Qhull finds no initial simplex: fewer than 3 points, or all of them on
\* one line (coincident points included).
Degenerate(pts) ==
    \A a \in PointSet(pts) : \A b \in PointSet(pts) : \A c \in PointSet(pts) :
        Cross(a, b, c) = 0

\* q is the corner that follows corner p counterclockwise on the hull of S
IsHullEdge(p, q, S) ==
    /\ q # p
    /\ \A s \in S : \/ Cross(p, q, s) > 0
                    \/ Cross(p, q, s) = 0 /\ OnSegment(p, q, s)

Corners(S) == {p \in S : \E q \in S : IsHullEdge(p, q, S)}

HullNext(p, S) == CHOOSE q \in S : IsHullEdge(p, q, S)

\* the corners in counterclockwise order, from p round to start
RECURSIVE HullWalk(_, _, _)
HullWalk(p, start, S) ==
    IF HullNext(p, S) = start THEN <<p>>
    ELSE <<p>> \o HullWalk(HullNext(p, S), start, S)

\* the 0-based indices of the input points equal to pt
IndicesOf(pt, pts) == {k - 1 : k \in {j \in 1..Len(pts) : pts[j] = pt}}

\* the index sequences that name the points of walk, one index per point
RECURSIVE IndexChoices(_, _)
IndexChoices(walk, pts) ==
    IF walk = <<>> THEN {<<>>}
    ELSE {<<k>> \o rest : k \in IndicesOf(Head(walk), pts),
                          rest \in IndexChoices(Tail(walk), pts)}

\* ConvexHull(points).vertices for non-degenerate 2D input: the indices of
\* the corners in counterclockwise order.  Which corner comes first, and
\* which of several input points at one corner is named, is Qhull's choice.
HullVertices(pts) ==
    UNION {IndexChoices(HullWalk(p, p, PointSet(pts)), pts) :
           p \in Corners(PointSet(pts))}

\* -------------------------------------------------------------- host scene

None == "None"

\* cmds.nodeType(node) in the scene the script runs in
NodeType ==
    [pCube1 |-> "transform", pCubeShape1 |-> "mesh", null1 |-> "transform",
     curve1 |-> "transform", curveShape1 |-> "nurbsCurve", joint1 |-> "joint"]

Nodes == DOMAIN NodeType

\* cmds.listRelatives(node, shapes=True); empty (falsy) when there is none
ListShapes ==
    [pCube1 |-> <<"pCubeShape1">>, null1 |-> <<>>,
     curve1 |-> <<"curveShape1">>]

\* the values a caller passes as meshName
MeshNames == {None, ""} \cup Nodes

\* the camera eye of the active view, fnCamera.eyePoint(kWorld)
CameraEyes == {Vec(0, 0, 5), Vec(1, -1, 2)}

\* vertex positions relative to the eye, every one at an integer distance:
\* the eye itself, two vertices one behind the other on screen, three on a
\* line on screen, one on a hull edge, and a quadrilateral around the eye
Offsets ==
    << <<3, 0, -4>>, <<0, 0, 0>>, <<-3, 0, -4>>, <<0, 3, -4>>, <<3, 0, 0>>,
       <<0, -4, -3>>, <<1, 2, -2>> >>

\* fnMesh.getPoints(kWorld): the meshes of at most MaxVerts vertices whose
\* vertices are taken, in order, from eye + Offsets
MeshPoints(eye) ==
    LET pos(k) == VAdd(eye, Vec(Offsets[k][1], Offsets[k][2], Offsets[k][3]))
        all == [k \in 1..Len(Offsets) |-> k]
        pick(S) == SelectSeq(all, LAMBDA k : k \in S)
    IN  {[j \in 1..Len(pick(S)) |-> pos(pick(S)[j])] :
         S \in {T \in SUBSET (1..Len(Offsets)) : Cardinality(T) <= MaxVerts}}

\* getShort(): the integer part of a view coordinate
ToShort(a) == a[1] \div a[2]

\* activeView.worldToView(p, xPtr, yPtr) of a front orthographic view: the
\* view coordinates are the world x and y
WorldToView(p) == <<ToShort(p[1]), ToShort(p[2])>>

\* ------------------------------------------------------------------ state

VARIABLES
    pc,             \* "new", "project" (projectPoints entered), "loop" (in
                    \* its for loop), "ready" (object usable), "raised"
    err,            \* the exception __init__ raised, or None
    shapeResult,    \* what getShape did: [kind, value]
    eyePoint,       \* self.eyePoint
    vtxPoints,      \* self.vtxPoints
    screenPoints,   \* self.screenPoints
    indexes,        \* self.indexes
    outlinePoints,  \* self.outlinePoints
    vecPnts,        \* projectPoints: vecPnts
    mean,           \* projectPoints: mean
    i,              \* projectPoints: the loop index
    curve,          \* the arguments of the last cmds.curve call
    closeCurve,     \* the closeCurve argument of the last buildCurve call
    preOutline,     \* outlinePoints when the last method call began
    last,           \* the last method that returned
    projects,       \* number of projectPoints runs that returned
    calls           \* number of method calls made on the object

vars == <<pc, err, shapeResult, eyePoint, vtxPoints, screenPoints, indexes,
          outlinePoints, vecPnts, mean, i, curve, closeCurve, preOutline,
          last, projects, calls>>

NoCurve == [called |-> FALSE, periodic |-> FALSE, point |-> <<>>,
            degree |-> 0, knot |-> <<>>]

Init ==
    /\ pc = "new"
    /\ err = None
    /\ shapeResult = [kind |-> "notcalled", value |-> None]
    /\ eyePoint = Vec(0, 0, 0)
    /\ vtxPoints = <<>>
    /\ screenPoints = <<>>
    /\ indexes = <<>>
    /\ outlinePoints = <<>>
    /\ vecPnts = <<>>
    /\ mean = Zero
    /\ i = 0
    /\ curve = NoCurve
    /\ closeCurve = FALSE
    /\ preOutline = <<>>
    /\ last = "none"
    /\ projects = 0
    /\ calls = 0

\* -------------------------------------------------------------- operations

\* getShape(node)
GetShape(node) ==
    IF NodeType[node] = "transform"
    THEN IF ListShapes[node] = <<>>
         THEN [kind |-> "raise", value |-> "RuntimeError"]
         ELSE [kind |-> "return", value |-> ListShapes[node][1]]
    ELSE IF NodeType[node] = "mesh"
    THEN [kind |-> "return", value |-> node]
    ELSE [kind |-> "return", value |-> None]

\* getMFnMesh(mesh): the exception it raises, or None.  MSelectionList.add
\* takes no None; MFnMesh takes only a mesh.
GetMFnMeshError(mesh) ==
    IF mesh = None THEN "TypeError"
    ELSE IF NodeType[mesh] # "mesh" THEN "RuntimeError"
    ELSE None

\* get2dPoints(vtxPoints)
Get2dPoints(pts) == [k \in 1..Len(pts) |-> WorldToView(pts[k])]

\* Mutant of OutlineOf: the hull index is not used to pick the vertex.
OutlineInInputOrder(pts, idx) == [k \in 1..Len(idx) |-> pts[k]]

\* [[vtxPoints[i].x, .y, .z] for i in indexes]
OutlineOf(pts, idx) == [k \in 1..Len(idx) |-> Item(pts, idx[k])]

\* [(vecPnt - eyePoint).length() for vecPnt in vecPnts]
Distances(pts, eye) == [k \in 1..Len(pts) |-> Length(VSub(pts[k], eye))]

RECURSIVE Sum(_)
Sum(ds) == IF ds = <<>> THEN Zero ELSE RAdd(Head(ds), Sum(Tail(ds)))

\* sum(distances)/len(distances)
Mean(ds) == RDiv(Sum(ds), FromInt(Len(ds)))

\* Mutant of LoopMean: the mean is taken anew in every pass, from the
\* points as they are by then.
StreamingMean == Mean(Distances(outlinePoints, eyePoint))

\* the mean the loop body multiplies by: the local set before the loop
LoopMean == mean

\* Mutant of ReprojectPnt: the vector is not normalized before it is scaled.
ReprojectUnnormalized(vecPnt, eye, m) ==
    {VAdd(VScale(VSub(vecPnt, eye), m), eye)}

\* the loop body's reprojectPnt: the points it may end as
ReprojectPnt(vecPnt, eye, m) ==
    {VAdd(VScale(u, m), eye) : u \in Normalize(VSub(vecPnt, eye))}

\* the constructor raises e
Raise(e) ==
    /\ pc' = "raised"
    /\ err' = e

\* __init__(meshName, projectOnPlane), up to the call of projectPoints
Construct ==
    /\ pc = "new"
    /\ \E meshName \in MeshNames, projectOnPlane \in BOOLEAN,
          eye \in CameraEyes :
         \E pts \in MeshPoints(eye) :
           IF meshName \in {None, ""}
           THEN /\ Raise("RuntimeError")
                /\ UNCHANGED <<shapeResult, eyePoint, vtxPoints, screenPoints,
                               indexes, outlinePoints>>
           ELSE
           /\ shapeResult' = GetShape(meshName)
           /\ IF shapeResult'.kind = "raise"
              THEN /\ Raise(shapeResult'.value)
                   /\ UNCHANGED <<eyePoint, vtxPoints, screenPoints, indexes,
                                  outlinePoints>>
              ELSE IF GetMFnMeshError(shapeResult'.value) # None
              THEN /\ Raise(GetMFnMeshError(shapeResult'.value))
                   /\ UNCHANGED <<eyePoint, vtxPoints, screenPoints, indexes,
                                  outlinePoints>>
              ELSE
              /\ eyePoint' = eye
              /\ vtxPoints' = pts
              /\ screenPoints' = Get2dPoints(pts)
              /\ IF Degenerate(screenPoints')
                 THEN /\ Raise("HullError")
                      /\ UNCHANGED <<indexes, outlinePoints>>
                 ELSE /\ indexes' \in HullVertices(screenPoints')
                      /\ outlinePoints' = OutlineOf(pts, indexes')
                      /\ pc' = IF projectOnPlane THEN "project" ELSE "ready"
                      /\ err' = None
    /\ last' = "init"
    /\ UNCHANGED <<vecPnts, mean, i, curve, closeCurve, preOutline, projects,
                   calls>>

\* a caller calls projectPoints() on the object
CallProjectPoints ==
    /\ pc = "ready"
    /\ calls < MaxCalls
    /\ calls' = calls + 1
    /\ pc' = "project"
    /\ UNCHANGED <<err, shapeResult, eyePoint, vtxPoints, screenPoints,
                   indexes, outlinePoints, vecPnts, mean, i, curve,
                   closeCurve, preOutline, last, projects>>

\* projectPoints, before its loop: vecPnts, distances, mean
ProjectBegin ==
    /\ pc = "project"
    /\ vecPnts' = outlinePoints
    /\ mean' = Mean(Distances(vecPnts', eyePoint))
    /\ i' = 0
    /\ preOutline' = outlinePoints
    /\ pc' = "loop"
    /\ UNCHANGED <<err, shapeResult, eyePoint, vtxPoints, screenPoints,
                   indexes, outlinePoints, curve, closeCurve, last, projects,
                   calls>>

\* one pass of the loop of projectPoints; the method returns after the last
ProjectStep ==
    /\ pc = "loop"
    /\ i < Len(vecPnts)
    /\ \E pnt \in ReprojectPnt(Item(vecPnts, i), eyePoint, LoopMean) :
         outlinePoints' = [outlinePoints EXCEPT ![i + 1] = pnt]
    /\ i' = i + 1
    /\ IF i' = Len(vecPnts)
       THEN /\ pc' = "ready"
            /\ last' = "projectPoints"
            /\ projects' = projects + 1
       ELSE UNCHANGED <<pc, last, projects>>
    /\ UNCHANGED <<err, shapeResult, eyePoint, vtxPoints, screenPoints,
                   indexes, vecPnts, mean, curve, closeCurve, preOutline,
                   calls>>

\* buildCurve(closeCurve)
BuildCurve ==
    /\ pc = "ready"
    /\ calls < MaxCalls
    /\ calls' = calls + 1
    /\ \E close \in BOOLEAN :
         /\ closeCurve' = close
         /\ IF close
            THEN /\ outlinePoints' = Append(outlinePoints, outlinePoints[1])
                 /\ curve' = [called |-> TRUE, periodic |-> TRUE,
                              point |-> outlinePoints', degree |-> 1,
                              knot |-> Range(Len(outlinePoints'))]
            ELSE /\ outlinePoints' = outlinePoints
                 /\ curve' = [called |-> TRUE, periodic |-> FALSE,
                              point |-> outlinePoints, degree |-> 1,
                              knot |-> <<>>]
    /\ preOutline' = outlinePoints
    /\ last' = "buildCurve"
    /\ UNCHANGED <<pc, err, shapeResult, eyePoint, vtxPoints, screenPoints,
                   indexes, vecPnts, mean, i, projects>>

Next ==
    \/ Construct
    \/ CallProjectPoints
    \/ ProjectBegin
    \/ ProjectStep
    \/ BuildCurve

Spec == Init /\ [][Next]_vars

\* ----------------------------------------------------------------- claims

\* distance of p from self.eyePoint
EyeDist(p) == Length(VSub(p, eyePoint))

\* a projectPoints run has just returned
ProjectDone == pc = "ready" /\ last = "projectPoints"

\* the object is constructed (its __init__ got past the hull)
Constructed == pc \in {"project", "loop", "ready"}

\* the mean of the eye distances the points had when projectPoints began
PreMean == Mean(Distances(preOutline, eyePoint))

\* all points of pts at one distance from the eye, not 0 and not NaN
Equidistant(pts) ==
    /\ pts # <<>>
    /\ EyeDist(pts[1])[1] > 0
    /\ \A k \in 1..Len(pts) : EyeDist(pts[k]) = EyeDist(pts[1])

\* fewer than 3 distinct points, or all points on one line
AllCollinear(pts) ==
    \/ Cardinality(PointSet(pts)) < 3
    \/ \E a \in PointSet(pts) : \E b \in PointSet(pts) \ {a} :
         \A c \in PointSet(pts) : Cross(a, b, c) = 0

\* C1: when projectPoints has returned, every outline point is at the same
\* distance from eyePoint, and that distance is the mean of the eye distances
\* the points had before.
C1_EquidistantAtMean ==
    ProjectDone =>
        \A k \in 1..Len(outlinePoints) : EyeDist(outlinePoints[k]) = PreMean

\* C2: projectPoints does not return normally when one of the points it was
\* given is the eye point itself: it fails with an error.
C2_ZeroDistanceRaises ==
    ProjectDone => \A k \in 1..Len(preOutline) : preOutline[k] # eyePoint

\* C3: when the screen points are fewer than 3 distinct points or all on one
\* line, __init__ raises at the hull, with no outline selected, projected or
\* drawn; a constructed object has an outline of at least 3 points over
\* screen points that are not degenerate.
C3_DegenerateFails ==
    /\ (pc # "new" /\ err \in {None, "HullError"}
            /\ AllCollinear(screenPoints))
         => /\ pc = "raised"
            /\ err = "HullError"
            /\ indexes = <<>>
            /\ outlinePoints = <<>>
            /\ projects = 0
            /\ ~curve.called
    /\ Constructed
         => /\ ~AllCollinear(screenPoints)
            /\ Len(outlinePoints) >= 3

C3_Witness ==
    /\ pc = "raised"
    /\ err = "HullError"
    /\ Cardinality(PointSet(screenPoints)) >= 3

\* the screen points of pts turn left at every corner, all the way round
Counterclockwise(pts) ==
    LET n == Len(pts)
        s(k) == WorldToView(pts[((k - 1) % n) + 1])
    IN  \A k \in 1..n : Cross(s(k), s(k + 1), s(k + 2)) > 0

\* the outline is as line 43 left it: before projectPoints and any method call
PreProjection ==
    /\ last = "init"
    /\ calls = 0
    /\ pc \in {"project", "ready"}

\* C4: before re-projection the outline has one point per hull index, in the
\* hull's order: outlinePoints[k] is vtxPoints[indexes[k]], every index is
\* an index of an input vertex, no index is used twice, the points go
\* counterclockwise on screen, and there are between 1 and len(vtxPoints).
C4_OutlineFromHull ==
    PreProjection =>
        /\ Len(outlinePoints) = Len(indexes)
        /\ \A k \in 1..Len(indexes) :
             /\ indexes[k] \in 0..(Len(vtxPoints) - 1)
             /\ outlinePoints[k] = Item(vtxPoints, indexes[k])
        /\ \A j \in 1..Len(indexes) : \A k \in 1..Len(indexes) :
             indexes[j] = indexes[k] => j = k
        /\ Counterclockwise(outlinePoints)
        /\ Len(outlinePoints) >= 1
        /\ Len(outlinePoints) <= Len(vtxPoints)

\* the hull order is not the input order, and a vertex was left out
C4_Witness ==
    /\ PreProjection
    /\ pc = "ready"
    /\ Len(outlinePoints) < Len(vtxPoints)
    /\ \E k \in 1..(Len(indexes) - 1) : indexes[k] > indexes[k + 1]

\* C5: in the loop of projectPoints the mean is the mean of the distances of
\* all points as they were before the first was rewritten; every point
\* rewritten so far is its own old point re-projected with that mean, and
\* the others are still as they were.
C5_TwoPass ==
    /\ pc = "loop" =>
         /\ mean = PreMean
         /\ Len(outlinePoints) = Len(preOutline)
         /\ \A k \in 1..Len(preOutline) :
              IF k <= i
              THEN outlinePoints[k]
                     \in ReprojectPnt(preOutline[k], eyePoint, PreMean)
              ELSE outlinePoints[k] = preOutline[k]
    /\ ProjectDone =>
         /\ Len(outlinePoints) = Len(preOutline)
         /\ \A k \in 1..Len(preOutline) :
              outlinePoints[k]
                \in ReprojectPnt(preOutline[k], eyePoint, PreMean)

\* mid-loop, with points of different eye distances, the first one moved
C5_Witness ==
    /\ pc = "loop"
    /\ i >= 1
    /\ i < Len(vecPnts)
    /\ outlinePoints[1] # preOutline[1]
    /\ EyeDist(preOutline[1]) # EyeDist(preOutline[Len(preOutline)])

\* C7: projectPoints on points that are all at one non-zero distance from
\* the eye leaves every point as it was.
C7_Idempotent ==
    (ProjectDone /\ Equidistant(preOutline)) => outlinePoints = preOutline

\* a second run, after a first one that moved a point
C7_Witness ==
    /\ ProjectDone
    /\ projects >= 2
    /\ Equidistant(preOutline)
    /\ outlinePoints = preOutline
    /\ \E k \in 1..Len(indexes) :
         outlinePoints[k] # Item(vtxPoints, indexes[k])

\* C8: projectPoints keeps the number and order of the points, and puts
\* point k at eyePoint + unit(old point k - eyePoint) * mean.
C8_DirectionPreserved ==
    ProjectDone =>
        /\ Len(outlinePoints) = Len(preOutline)
        /\ \A k \in 1..Len(preOutline) :
             LET d == VSub(preOutline[k], eyePoint)
             IN  /\ Length(d) # Zero
                 /\ outlinePoints[k]
                      = VAdd(VScale(d, RDiv(PreMean, Length(d))), eyePoint)

\* C6: the outline of a constructed object has one point per hull index,
\* whatever buildCurve calls were made.
C6_OutlineNotClosed ==
    pc = "ready" => Len(outlinePoints) = Len(indexes)

\* C9: buildCurve(True) hands the host the outline (one point per hull
\* index) and one duplicate of its first point, periodic, degree 1, knots
\* 0..m-1 for m points; buildCurve(False) hands it the outline and no more,
\* degree 1.
C9_CurveMatchesClosure ==
    (pc = "ready" /\ last = "buildCurve") =>
        LET n == Len(indexes)
        IN  /\ curve.called
            /\ curve.degree = 1
            /\ SubSeq(curve.point, 1, n) = SubSeq(preOutline, 1, n)
            /\ IF closeCurve
               THEN /\ curve.periodic
                    /\ Len(curve.point) = n + 1
                    /\ curve.point[n + 1] = curve.point[1]
                    /\ curve.knot = Range(Len(curve.point))
               ELSE /\ ~curve.periodic
                    /\ Len(curve.point) = n

\* C10: getShape returns a shape node name or raises RuntimeError; __init__
\* without a mesh name raises RuntimeError before any host query; a
\* constructed object has a mesh shape.
C10_ShapeOrRaise ==
    /\ shapeResult.kind = "return" => shapeResult.value \in Nodes
    /\ shapeResult.kind = "raise" => shapeResult.value = "RuntimeError"
    /\ (pc = "raised" /\ shapeResult.kind = "notcalled")
         => err = "RuntimeError"
    /\ Constructed =>
         /\ shapeResult.kind = "return"
         /\ shapeResult.value \in Nodes
         /\ NodeType[shapeResult.value] = "mesh"

====
